---- MODULE Spec2Model ----
(***************************************************************************)
(* The three group-chat admin commands of src/groupchat-cli (delete-group, *)
(* create-group, list-groups) as event-driven state machines over one      *)
(* WebSocket session each, and the relay they talk to.                     *)
(*                                                                         *)
(* A process ("session") is a record: its configuration (argv and          *)
(* environment), its module-level variables (signedEvent, inviteCode,      *)
(* authenticated, groupExists, groups), the state of its WebSocket, its    *)
(* pending timers, the frames it has transmitted, its console reports and  *)
(* its exit status.  Every handler of the source is a function from the    *)
(* record before the callback runs to the record after it.                 *)
(***************************************************************************)
EXTENDS Integers, Sequences, FiniteSets, TLC

VARIABLES sess, clock, relayGroups, relayConn

vars == <<sess, clock, relayGroups, relayConn>>

(***************************************************************************)
(* Bounds of the model.                                                    *)
(***************************************************************************)
MaxInbound == 3
MaxClock == 1
MaxNameLen == 3

Sessions == {1, 2}

(***************************************************************************)
(* Program constants.                                                      *)
(***************************************************************************)
NIP29_CREATE_GROUP == 9007
NIP29_DELETE_GROUP == 9008
NIP29_CREATE_INVITE == 9009
NIP29_GROUP_METADATA == 39000
AUTH_KIND == 22242
MaxIdLen == 24

DefaultRelayUrl == "ws://localhost:3334"

(***************************************************************************)
(* Strings that the program inspects character by character (group names   *)
(* and identifiers) are sequences of one-character strings.                *)
(***************************************************************************)
UpperChars ==
    <<"A","B","C","D","E","F","G","H","I","J","K","L","M",
      "N","O","P","Q","R","S","T","U","V","W","X","Y","Z">>
LowerChars ==
    <<"a","b","c","d","e","f","g","h","i","j","k","l","m",
      "n","o","p","q","r","s","t","u","v","w","x","y","z">>
DigitChars == <<"0","1","2","3","4","5","6","7","8","9">>

Range(f) == {f[i] : i \in DOMAIN f}

\* String.prototype.toLowerCase, one character
ToLowerChar(c) ==
    IF \E i \in DOMAIN UpperChars : UpperChars[i] = c
    THEN LowerChars[CHOOSE i \in DOMAIN UpperChars : UpperChars[i] = c]
    ELSE c

ToLowerCase(str) == [i \in DOMAIN str |-> ToLowerChar(str[i])]

\* the character class [a-z0-9]
IsAlnumLower(c) == c \in Range(LowerChars) \cup Range(DigitChars)

\* .replace(/[^a-z0-9]/g, '')
StripNonAlnum(str) == SelectSeq(str, IsAlnumLower)

\* .slice(0, n)
Slice0(str, n) == IF Len(str) <= n THEN str ELSE SubSeq(str, 1, n)

\* Number.prototype.toString(36)
RECURSIVE ToBase36(_)
ToBase36(n) ==
    LET digits == DigitChars \o LowerChars
    IN IF n < 36 THEN <<digits[n + 1]>>
       ELSE ToBase36(n \div 36) \o <<digits[(n % 36) + 1]>>

\* Date.now(), milliseconds, on the model's clock of seconds
DateNowMs(now) == now * 1000

\* created_at: Math.floor(Date.now() / 1000)
CreatedAt(now) == DateNowMs(now) \div 1000

generateGroupIdMutNoFallback(groupName, now) ==
    Slice0(StripNonAlnum(ToLowerCase(groupName)), MaxIdLen)

\* generateGroupId of create-group
generateGroupId(groupName, now) ==
    LET id == Slice0(StripNonAlnum(ToLowerCase(groupName)), MaxIdLen)
    IN IF id # <<>> THEN id
       ELSE <<"g","r","o","u","p">> \o ToBase36(DateNowMs(now))

(***************************************************************************)
(* Signed events.  finalizeEvent derives the identifier from the           *)
(* serialisation [0, pubkey, created_at, kind, tags, content]; the hash is *)
(* modelled as injective, i.e. by the serialisation itself.                *)
(***************************************************************************)
Pubkey == "adminpk"

EventId(tmpl) == <<0, Pubkey, tmpl.created_at, tmpl.kind, tmpl.tags, tmpl.content>>

finalizeEvent(tmpl) ==
    [kind |-> tmpl.kind, created_at |-> tmpl.created_at, tags |-> tmpl.tags,
     content |-> tmpl.content, pubkey |-> Pubkey, id |-> EventId(tmpl)]

NoEvent ==
    [kind |-> 0, created_at |-> 0, tags |-> <<>>, content |-> "",
     pubkey |-> "", id |-> <<0, "", 0, 0, <<>>, "">>]

\* An identifier that belongs to no event of the session
OtherId == <<0, "otherpk", 0, 0, <<>>, "">>

\* The kind-22242 authentication event built in each AUTH branch
AuthEventMutTagOrder(relayUrl, challenge, now) ==
    finalizeEvent([kind |-> AUTH_KIND, created_at |-> CreatedAt(now),
                   tags |-> << <<"challenge", challenge>>, <<"relay", relayUrl>> >>,
                   content |-> ""])

AuthEventMutDefaultUrl(relayUrl, challenge, now) ==
    finalizeEvent([kind |-> AUTH_KIND, created_at |-> CreatedAt(now),
                   tags |-> << <<"relay", DefaultRelayUrl>>, <<"challenge", challenge>> >>,
                   content |-> ""])

AuthEvent(relayUrl, challenge, now) ==
    finalizeEvent([kind |-> AUTH_KIND, created_at |-> CreatedAt(now),
                   tags |-> << <<"relay", relayUrl>>, <<"challenge", challenge>> >>,
                   content |-> ""])

\* eventTemplate / signedEvent of delete-group
DeleteEvent(groupId, now) ==
    finalizeEvent([kind |-> NIP29_DELETE_GROUP, created_at |-> CreatedAt(now),
                   tags |-> << <<"h", groupId>> >>, content |-> ""])

\* description || ''  (an absent description is the empty string already)
OrEmpty(description) == description

\* eventTemplate / signedEvent of create-group
CreateEventMutRawName(groupId, name, description, isPrivate, now) ==
    finalizeEvent([kind |-> NIP29_CREATE_GROUP, created_at |-> CreatedAt(now),
                   tags |-> << <<"h", name>>, <<"name", name>>,
                               <<"about", OrEmpty(description)>>,
                               <<"public", IF isPrivate THEN "false" ELSE "true">> >>,
                   content |-> ""])

CreateEvent(groupId, name, description, isPrivate, now) ==
    finalizeEvent([kind |-> NIP29_CREATE_GROUP, created_at |-> CreatedAt(now),
                   tags |-> << <<"h", groupId>>, <<"name", name>>,
                               <<"about", OrEmpty(description)>>,
                               <<"public", IF isPrivate THEN "false" ELSE "true">> >>,
                   content |-> ""])

\* inviteEvent of create-group
InviteEvent(groupId, inviteCode, now) ==
    finalizeEvent([kind |-> NIP29_CREATE_INVITE, created_at |-> CreatedAt(now),
                   tags |-> << <<"h", groupId>>, <<"code", inviteCode>> >>,
                   content |-> ""])

(***************************************************************************)
(* Frames.  An outbound frame is what JSON.stringify is given: AUTH and    *)
(* EVENT carry an event, REQ a label and a filter, CLOSE a label.  An      *)
(* inbound frame is the parsed array: t = response[0], a1..a3 =            *)
(* response[1..3]; t = "BAD" is data that JSON.parse rejects.              *)
(***************************************************************************)
NoFilter == [kinds |-> <<>>, d |-> <<>>]

AuthFrame(ev) == [t |-> "AUTH", sub |-> "", ev |-> ev, filter |-> NoFilter]
EventFrame(ev) == [t |-> "EVENT", sub |-> "", ev |-> ev, filter |-> NoFilter]
ReqFrame(sub, filter) == [t |-> "REQ", sub |-> sub, ev |-> NoEvent, filter |-> filter]
CloseFrame(sub) == [t |-> "CLOSE", sub |-> sub, ev |-> NoEvent, filter |-> NoFilter]

\* { kinds: [39000], '#d': [groupId] }
CheckFilter(groupId) == [kinds |-> <<NIP29_GROUP_METADATA>>, d |-> <<groupId>>]
\* { kinds: [NIP29_GROUP_METADATA] }
GroupsFilter == [kinds |-> <<NIP29_GROUP_METADATA>>, d |-> <<>>]

InAuth(challenge) == [t |-> "AUTH", a1 |-> challenge, a2 |-> FALSE, a3 |-> ""]
InEvent(sub, ev) == [t |-> "EVENT", a1 |-> sub, a2 |-> ev, a3 |-> ""]
InEose(sub) == [t |-> "EOSE", a1 |-> sub, a2 |-> FALSE, a3 |-> ""]
InOk(id, accepted, message) == [t |-> "OK", a1 |-> id, a2 |-> accepted, a3 |-> message]
InNotice == [t |-> "NOTICE", a1 |-> "", a2 |-> FALSE, a3 |-> ""]
InBad == [t |-> "BAD", a1 |-> "", a2 |-> FALSE, a3 |-> ""]
NoFrame == [t |-> "", a1 |-> "", a2 |-> FALSE, a3 |-> ""]


(***************************************************************************)
(* Inputs of the model: what argv and the environment may hold, and what   *)
(* a relay may put in its frames.                                          *)
(***************************************************************************)
InviteCodes == {"abc123xyz789", "zzzzzzzzzzzz"}
Challenges == {"nonce123", "n2"}
Labels == {"check", "groups"}
Messages == {"group not found", "restricted"}

\* Group-metadata events a relay may stream to list-groups.  content is the
\* outcome of JSON.parse(event.content): text = "empty" (falsy content),
\* "json" (parses; absent fields are "" / FALSE) or "garbage" (throws).
\* hasTags = FALSE is an event without a tags array.
NoContent == [text |-> "empty", name |-> "", about |-> "", private |-> FALSE]
MetaEvents ==
    { [content |-> [text |-> "json", name |-> "X", about |-> "Y", private |-> TRUE],
       hasTags |-> TRUE, tags |-> << <<"d", "general">>, <<"name", "Z">> >>,
       created_at |-> 1],
      [content |-> [text |-> "garbage", name |-> "", about |-> "", private |-> FALSE],
       hasTags |-> TRUE, tags |-> << <<"name", "A">>, <<"public", "false">>,
                                      <<"name", "B">> >>,
       created_at |-> 2],
      [content |-> NoContent, hasTags |-> FALSE, tags |-> <<>>, created_at |-> 3] }
AnyMetaEvent ==
    [content |-> NoContent, hasTags |-> TRUE, tags |-> <<>>, created_at |-> 0]

(***************************************************************************)
(* The session record.                                                     *)
(***************************************************************************)
Config(op, name, description, isPrivate, hasKey, relayUrl) ==
    [op |-> op, name |-> name, description |-> description,
     isPrivate |-> isPrivate, hasKey |-> hasKey, relayUrl |-> relayUrl]

\* A process that has not been invoked yet
Idle(cfg) ==
    [op |-> cfg.op, name |-> cfg.name, description |-> cfg.description,
     isPrivate |-> cfg.isPrivate, hasKey |-> cfg.hasKey, relayUrl |-> cfg.relayUrl,
     ws |-> "none", dialed |-> "", exit |-> -1, endedBy |-> "",
     groupId |-> <<>>, signedEvent |-> NoEvent, inviteCode |-> "",
     authenticated |-> FALSE, groupExists |-> FALSE, groups |-> <<>>,
     printed |-> <<>>, timers |-> 0, deadline |-> FALSE,
     sent |-> <<>>, reports |-> <<>>, closeCalled |-> FALSE, checkResult |-> "none",
     \* history of the frames delivered, kept by the environment
     nIn |-> 0, lastIn |-> NoFrame, sawCheckEvent |-> FALSE, eventBeforeEose |-> FALSE,
     authAccepted |-> FALSE, authRejectedAt |-> -1, authRejectedRep |-> -1,
     sawAuth |-> FALSE, timedOut |-> FALSE, resolvedUpTo |-> 0,
     after |-> {}]

Running(st) == st.ws # "none" /\ st.exit = -1

(***************************************************************************)
(* The WebSocket and the process, as the handlers use them.                *)
(***************************************************************************)
\* ws.send(JSON.stringify(frame)): transmitted only while the socket is OPEN;
\* after close() the data is discarded.
Send(st, frame) ==
    IF st.ws = "open" THEN [st EXCEPT !.sent = Append(@, frame)] ELSE st

\* ws.close(): starts the closing handshake; while CONNECTING it aborts the
\* connection attempt, which ends in an 'error' event.
WsClose(st) ==
    [st EXCEPT !.closeCalled = TRUE,
               !.ws = IF @ = "open" THEN "closing"
                      ELSE IF @ = "connecting" THEN "aborting" ELSE @]

\* process.exit(code): no callback runs afterwards, the socket is gone
ProcessExit(st, code, by) ==
    [st EXCEPT !.exit = code, !.endedBy = by, !.timers = 0, !.deadline = FALSE,
               !.ws = "closed"]

\* console.log / console.error of an outcome
Log(st, out, msg) == [st EXCEPT !.reports = Append(@, [out |-> out, msg |-> msg])]

\* setTimeout(callback, 300 | 500)
SetTimer(st) == [st EXCEPT !.timers = @ + 1]


(***************************************************************************)
(* delete-group                                                            *)
(***************************************************************************)
\* ws.on('message'), AUTH branch: answer the challenge, schedule the delete
DeleteOnAuth(st, f, now) ==
    SetTimer(Send(st, AuthFrame(AuthEvent(st.relayUrl, f.a1, now))))

DeleteOnOkMutAnyId(st, f) ==
    WsClose(IF f.a2 THEN Log(st, "Group deleted", "")
                    ELSE Log(st, "Failed to delete group", f.a3))

\* ws.on('message'), OK branch
DeleteOnOk(st, f) ==
    IF f.a1 = st.signedEvent.id
    THEN WsClose(IF f.a2 THEN Log(st, "Group deleted", "")
                         ELSE Log(st, "Failed to delete group", f.a3))
    ELSE st

DeleteOnMessage(st, f, now) ==
    IF f.t = "AUTH" THEN DeleteOnAuth(st, f, now)
    ELSE IF f.t = "OK" THEN DeleteOnOk(st, f)
    ELSE st

\* the setTimeout(..., 500) callback
DeleteOnTimer(st) == Send(st, EventFrame(st.signedEvent))

(***************************************************************************)
(* create-group                                                            *)
(***************************************************************************)
\* ws.on('message'), AUTH branch: answer the challenge, schedule the check
CreateOnAuth(st, f, now) ==
    SetTimer([Send(st, AuthFrame(AuthEvent(st.relayUrl, f.a1, now)))
                 EXCEPT !.authenticated = TRUE])

CreateOnCheckEventMutNoFlag(st) == st

\* ws.on('message'), EVENT 'check' branch
CreateOnCheckEvent(st) == [st EXCEPT !.groupExists = TRUE]

CreateOnCheckEoseMutNoBranch(st) ==
    LET st1 == Send(st, CloseFrame("check"))
    IN Send([st1 EXCEPT !.checkResult = "absent"], EventFrame(st1.signedEvent))

\* ws.on('message'), EOSE 'check' branch
CreateOnCheckEose(st) ==
    LET st1 == Send(st, CloseFrame("check"))
    IN IF st1.groupExists
       THEN WsClose(Log([st1 EXCEPT !.checkResult = "exists"], "Group already exists", ""))
       ELSE Send([st1 EXCEPT !.checkResult = "absent"], EventFrame(st1.signedEvent))

CreateOnOkMutInviteAlways(st, f, now) ==
    IF f.a1 = st.signedEvent.id
    THEN IF f.a2
         THEN Send(Log(st, "Group created", ""),
                   EventFrame(InviteEvent(st.groupId, st.inviteCode, now)))
         ELSE WsClose(Log(st, "Failed to create group", f.a3))
    ELSE IF st.isPrivate
         THEN WsClose(IF f.a2 THEN Log(st, "Invite created", st.inviteCode)
                              ELSE Log(st, "Group created but invite failed", f.a3))
         ELSE st

CreateOnOkMutRollsBack(st, f, now) ==
    IF f.a1 = st.signedEvent.id
    THEN IF f.a2
         THEN LET st1 == Log(st, "Group created", "")
              IN IF st.isPrivate /\ st.inviteCode # ""
                 THEN Send(st1, EventFrame(InviteEvent(st.groupId, st.inviteCode, now)))
                 ELSE WsClose(st1)
         ELSE WsClose(Log(st, "Failed to create group", f.a3))
    ELSE IF st.isPrivate
         THEN IF f.a2 THEN WsClose(Log(st, "Invite created", st.inviteCode))
              ELSE WsClose(Send(Log(st, "Failed to create group", f.a3),
                                EventFrame(DeleteEvent(st.groupId, now))))
         ELSE st

\* ws.on('message'), OK branch
CreateOnOk(st, f, now) ==
    IF f.a1 = st.signedEvent.id
    THEN IF f.a2
         THEN LET st1 == Log(st, "Group created", "")
              IN IF st.isPrivate /\ st.inviteCode # ""
                 THEN Send(st1, EventFrame(InviteEvent(st.groupId, st.inviteCode, now)))
                 ELSE WsClose(st1)
         ELSE WsClose(Log(st, "Failed to create group", f.a3))
    ELSE IF st.isPrivate
         THEN WsClose(IF f.a2 THEN Log(st, "Invite created", st.inviteCode)
                              ELSE Log(st, "Group created but invite failed", f.a3))
         ELSE st

CreateOnMessage(st, f, now) ==
    IF f.t = "AUTH" THEN CreateOnAuth(st, f, now)
    ELSE IF f.t = "EVENT" /\ f.a1 = "check" THEN CreateOnCheckEvent(st)
    ELSE IF f.t = "EOSE" /\ f.a1 = "check" THEN CreateOnCheckEose(st)
    ELSE IF f.t = "OK" THEN CreateOnOk(st, f, now)
    ELSE st

\* the setTimeout(..., 300) callback
CreateOnTimer(st) == Send(st, ReqFrame("check", CheckFilter(st.groupId)))

(***************************************************************************)
(* list-groups                                                             *)
(***************************************************************************)
sendGroupsRequest(st) == Send(st, ReqFrame("groups", GroupsFilter))

\* ws.on('open')
ListOnOpen(st) == IF ~st.hasKey THEN sendGroupsRequest(st) ELSE st

\* the loop over event.tags, from tag i on
RECURSIVE ApplyTags(_, _, _)
ApplyTags(tags, i, g) ==
    IF i > Len(tags) THEN g
    ELSE LET tag == tags[i]
             g1 == IF tag[1] = "name" THEN [g EXCEPT !.name = tag[2]] ELSE g
             g2 == IF tag[1] = "about" THEN [g1 EXCEPT !.description = tag[2]] ELSE g1
             g3 == IF tag[1] = "public" THEN [g2 EXCEPT !.private = (tag[2] = "false")]
                   ELSE g2
             g4 == IF tag[1] = "private" THEN [g3 EXCEPT !.private = (tag[2] = "true")]
                   ELSE g3
         IN ApplyTags(tags, i + 1, g4)

\* event.tags.find(t => t[0] === 'd')?.[1] || 'unknown'
FindGroupId(tags) ==
    IF \E i \in DOMAIN tags : tags[i][1] = "d"
    THEN LET i == CHOOSE j \in DOMAIN tags :
                     tags[j][1] = "d" /\ \A k \in 1..(j - 1) : tags[k][1] # "d"
         IN IF tags[i][2] # "" THEN tags[i][2] ELSE "unknown"
    ELSE "unknown"

GroupRecordMutContentWins(event) ==
    LET c == event.content
        g == ApplyTags(event.tags, 1, [name |-> "Unnamed", description |-> "", private |-> FALSE])
    IN [id |-> FindGroupId(event.tags),
        name |-> IF c.text = "json" /\ c.name # "" THEN c.name ELSE g.name,
        description |-> IF c.text = "json" /\ c.about # "" THEN c.about ELSE g.description,
        private |-> IF c.text = "json" /\ c.private THEN TRUE ELSE g.private,
        created |-> event.created_at * 1000]

\* The GroupRecord pushed for a metadata event with a tags array
GroupRecord(event) ==
    LET c == event.content
        fromContent ==
            IF c.text = "json"
            THEN [name |-> IF c.name # "" THEN c.name ELSE "Unnamed",
                  description |-> c.about, private |-> c.private]
            ELSE [name |-> "Unnamed", description |-> "", private |-> FALSE]
        g == ApplyTags(event.tags, 1, fromContent)
    IN [id |-> FindGroupId(event.tags), name |-> g.name,
        description |-> g.description, private |-> g.private,
        created |-> event.created_at * 1000]

ListOnGroupsEventMutNewestFirst(st, event) ==
    IF event.hasTags THEN [st EXCEPT !.groups = <<GroupRecord(event)>> \o @] ELSE st

\* ws.on('message'), EVENT 'groups' branch; an event without tags throws
\* inside the try block and is skipped
ListOnGroupsEvent(st, event) ==
    IF event.hasTags THEN [st EXCEPT !.groups = Append(@, GroupRecord(event))] ELSE st

\* ws.on('message'), AUTH branch
ListOnAuth(st, f, now) ==
    SetTimer([Send(st, AuthFrame(AuthEvent(st.relayUrl, f.a1, now)))
                 EXCEPT !.authenticated = TRUE])

\* ws.on('message'), EOSE branch: print the listing (printed), close
ListOnEose(st) ==
    WsClose(IF Len(st.groups) = 0 THEN Log(st, "No groups found on this relay", "")
            ELSE Log([st EXCEPT !.printed = st.groups], "Found groups", ""))

ListOnMessage(st, f, now) ==
    IF f.t = "AUTH" /\ st.hasKey /\ ~st.authenticated THEN ListOnAuth(st, f, now)
    ELSE IF f.t = "EVENT" /\ f.a1 = "groups" THEN ListOnGroupsEvent(st, f.a2)
    ELSE IF f.t = "EOSE" THEN ListOnEose(st)
    ELSE IF f.t = "OK" /\ ~f.a2 THEN Log(st, "Authentication failed", f.a3)
    ELSE st

\* the setTimeout(() => sendGroupsRequest(), 300) callback
ListOnTimer(st) == sendGroupsRequest(st)

(***************************************************************************)
(* The callbacks of a process, by command.                                 *)
(***************************************************************************)
OnMessageMutUnknownFatal(st, f, now) ==
    IF f.t \in {"BAD", "NOTICE"} THEN ProcessExit(st, 1, "exception")
    ELSE IF st.op = "delete" THEN DeleteOnMessage(st, f, now)
    ELSE IF st.op = "create" THEN CreateOnMessage(st, f, now)
    ELSE ListOnMessage(st, f, now)

\* JSON.parse(data.toString()) throws on data that is not JSON: the exception
\* leaves the 'message' listener uncaught and ends the process with status 1.
OnMessage(st, f, now) ==
    IF f.t = "BAD" THEN ProcessExit(st, 1, "exception")
    ELSE IF st.op = "delete" THEN DeleteOnMessage(st, f, now)
    ELSE IF st.op = "create" THEN CreateOnMessage(st, f, now)
    ELSE ListOnMessage(st, f, now)

OnTimer(st) ==
    IF st.op = "delete" THEN DeleteOnTimer(st)
    ELSE IF st.op = "create" THEN CreateOnTimer(st)
    ELSE ListOnTimer(st)

OnOpen(st) == IF st.op = "list" THEN ListOnOpen(st) ELSE st

\* ws.on('error')
OnError(st) == ProcessExit(Log(st, "WebSocket error", ""), 1, "error")

\* ws.on('close')
OnClose(st) == ProcessExit(st, 0, "close")

OnDeadlineMutListKeepsOpen(st) ==
    IF st.op = "list"
    THEN (IF Len(st.groups) = 0
          THEN Log(st, "No groups found (or timeout reached)", "") ELSE st)
    ELSE ProcessExit(WsClose(Log(st, "Timeout", "")), 1, "deadline")

\* The deadline: setTimeout(..., 15000) of delete and create, 5000 of list
OnDeadline(st) ==
    IF st.op = "list"
    THEN WsClose(IF Len(st.groups) = 0
                 THEN Log(st, "No groups found (or timeout reached)", "") ELSE st)
    ELSE ProcessExit(WsClose(Log(st, "Timeout", "")), 1, "deadline")

\* The top level of a script: derive the identifier, sign the event, dial the
\* relay, arm the deadline.
Main(st, code, now) ==
    LET groupId == IF st.op = "create" THEN generateGroupId(st.name, now) ELSE st.name
        signedEvent ==
            IF st.op = "create"
            THEN CreateEvent(groupId, st.name, st.description, st.isPrivate, now)
            ELSE IF st.op = "delete" THEN DeleteEvent(groupId, now) ELSE NoEvent
    IN [st EXCEPT !.groupId = groupId, !.signedEvent = signedEvent,
                  !.inviteCode = IF st.op = "create" /\ st.isPrivate THEN code ELSE "",
                  !.ws = "connecting", !.dialed = st.relayUrl, !.deadline = TRUE]


(***************************************************************************)
(* The relay.  It challenges each connection once, answers an AUTH frame   *)
(* with OK (when it acknowledges authentication at all), streams the       *)
(* stored group metadata that matches a REQ followed by EOSE, and keeps    *)
(* the set of groups: an accepted create-group publishes the group's       *)
(* metadata, an accepted delete-group removes it.                          *)
(***************************************************************************)
NewConn(acks) == [pos |-> 0, authed |-> FALSE, challenge |-> "", out |-> <<>>, acks |-> acks]

\* The kind-39000 event the relay stores for a group
MetadataOf(groupId) ==
    [content |-> NoContent, hasTags |-> TRUE, tags |-> << <<"d", groupId>> >>,
     created_at |-> 0]

\* The 'h' tag of a group event
HTag(ev) == ev.tags[1][2]

RECURSIVE SetToSeq(_)
SetToSeq(S) ==
    IF S = {} THEN <<>>
    ELSE LET x == CHOOSE y \in S : TRUE IN <<x>> \o SetToSeq(S \ {x})

\* The frames a REQ is answered with
RelayAnswerReq(groups, frame) ==
    LET matching == IF frame.filter.d = <<>> THEN groups
                    ELSE {g \in groups : g = frame.filter.d[1]}
        stored == SetToSeq(matching)
    IN [i \in 1..Len(stored) |-> InEvent(frame.sub, MetadataOf(stored[i]))]
       \o <<InEose(frame.sub)>>

RelayAuthValid(conn, ev, url) ==
    /\ ev.kind = AUTH_KIND
    /\ conn.challenge # ""
    /\ ev.tags = << <<"relay", url>>, <<"challenge", conn.challenge>> >>

(***************************************************************************)
(* What the environment records of each delivered frame.                   *)
(***************************************************************************)
\* the label of the command's REQ
OwnLabel(st) == IF st.op = "create" THEN "check" ELSE IF st.op = "list" THEN "groups" ELSE ""

IsAuthReply(st, f) ==
    /\ f.t = "OK"
    /\ \E i \in DOMAIN st.sent : st.sent[i].t = "AUTH" /\ st.sent[i].ev.id = f.a1

Observe(before, f, afterSt) ==
    [afterSt EXCEPT
        !.nIn = @ + 1,
        !.lastIn = f,
        !.sawCheckEvent = @ \/ (f.t = "EVENT" /\ f.a1 = "check"),
        !.eventBeforeEose = IF f.t = "EOSE" /\ f.a1 = "check"
                            THEN before.sawCheckEvent ELSE @,
        !.sawAuth = @ \/ f.t = "AUTH",
        !.resolvedUpTo = IF f.t = "EOSE" /\ f.a1 = OwnLabel(before)
                         THEN Len(before.sent) ELSE @,
        !.authAccepted = @ \/ (IsAuthReply(before, f) /\ f.a2),
        !.authRejectedAt = IF @ = -1 /\ IsAuthReply(before, f) /\ ~f.a2
                           THEN Len(before.sent) ELSE @,
        !.authRejectedRep = IF before.authRejectedAt = -1 /\ IsAuthReply(before, f) /\ ~f.a2
                            THEN Len(before.reports) ELSE @]

(***************************************************************************)
(* Actions of a process.                                                   *)
(***************************************************************************)
Step(s, st) == sess' = [sess EXCEPT ![s] = st]

\* Time passes between callbacks; the model notes it when a callback reads
\* Date.now() and the value read shows in what the callback does.
Elapse(now, observed) ==
    /\ now \in clock..MaxClock
    /\ now # clock => observed
    /\ clock' = now

\* node <script> ...
Start(s) ==
    /\ sess[s].ws = "none"
    /\ \E code \in InviteCodes, now \in clock..MaxClock :
          /\ Elapse(now, Main(sess[s], code, now) # Main(sess[s], code, clock))
          /\ Step(s, [Main(sess[s], code, now) EXCEPT
                         !.after = {o \in Sessions \ {s} : sess[o].exit # -1}])
    /\ UNCHANGED <<relayGroups, relayConn>>

\* the connection is established: 'open'
Open(s) ==
    /\ Running(sess[s]) /\ sess[s].ws = "connecting"
    /\ Step(s, OnOpen([sess[s] EXCEPT !.ws = "open"]))
    /\ UNCHANGED <<clock, relayGroups, relayConn>>

\* a frame arrives: 'message'
Deliver(s, f) ==
    /\ Running(sess[s]) /\ sess[s].ws \in {"open", "closing"}
    /\ \E now \in clock..MaxClock :
          /\ Elapse(now, OnMessage(sess[s], f, now) # OnMessage(sess[s], f, clock))
          /\ Step(s, Observe(sess[s], f, OnMessage(sess[s], f, now)))

\* a 300 ms / 500 ms timer expires
TimerFire(s) ==
    /\ Running(sess[s]) /\ sess[s].timers > 0
    /\ Step(s, OnTimer([sess[s] EXCEPT !.timers = @ - 1]))
    /\ UNCHANGED <<clock, relayGroups, relayConn>>

\* the deadline timer expires; the environment notes whether the command had
\* reached a conclusion (and called ws.close()) by then
Deadline(s) ==
    /\ Running(sess[s]) /\ sess[s].deadline
    /\ Step(s, [OnDeadline([sess[s] EXCEPT !.deadline = FALSE])
                   EXCEPT !.timedOut = ~sess[s].closeCalled])
    /\ UNCHANGED <<clock, relayGroups, relayConn>>

\* the closing handshake started by ws.close() completes: 'close'
CloseEvent(s) ==
    /\ Running(sess[s]) /\ sess[s].ws = "closing"
    /\ Step(s, OnClose(sess[s]))
    /\ UNCHANGED <<clock, relayGroups, relayConn>>

\* the relay or the network ends the connection: 'close'
PeerClose(s) ==
    /\ Running(sess[s]) /\ sess[s].ws = "open"
    /\ Step(s, OnClose(sess[s]))
    /\ UNCHANGED <<clock, relayGroups, relayConn>>

\* the connection cannot be established, breaks, or was aborted by
\* ws.close() while connecting: 'error'
ErrorEvent(s) ==
    /\ Running(sess[s]) /\ sess[s].ws \in {"connecting", "open", "closing", "aborting"}
    /\ Step(s, OnError(sess[s]))
    /\ UNCHANGED <<clock, relayGroups, relayConn>>

(***************************************************************************)
(* Spec: one invocation of any of the three commands against a relay that  *)
(* may send any frame at any time.                                         *)
(***************************************************************************)
CanReceive(s) == sess[s].nIn < MaxInbound

\* The identifier in an OK frame: of the command's own event (k = -1), of no
\* event of the session (k = 0), or of the k-th AUTH or EVENT frame sent
OkIdAt(st, k) ==
    IF k = -1 THEN st.signedEvent.id
    ELSE IF k = 0 THEN OtherId
    ELSE st.sent[k].ev.id

RecvAuth(s) ==
    /\ CanReceive(s)
    /\ \E c \in Challenges : Deliver(s, InAuth(c))
    /\ UNCHANGED <<relayGroups, relayConn>>

RecvEvent(s) ==
    /\ CanReceive(s)
    /\ \E l \in Labels :
          \E ev \in (IF sess[s].op = "list" THEN MetaEvents ELSE {AnyMetaEvent}) :
             Deliver(s, InEvent(l, ev))
    /\ UNCHANGED <<relayGroups, relayConn>>

RecvEose(s) ==
    /\ CanReceive(s)
    /\ \E l \in Labels : Deliver(s, InEose(l))
    /\ UNCHANGED <<relayGroups, relayConn>>

RecvOk(s) ==
    /\ CanReceive(s)
    /\ \E k \in -1..Len(sess[s].sent), accepted \in BOOLEAN, m \in Messages \cup {""} :
          /\ accepted <=> m = ""
          /\ k = -1 => sess[s].op # "list"
          /\ k >= 1 => sess[s].sent[k].t \in {"AUTH", "EVENT"}
          /\ Deliver(s, InOk(OkIdAt(sess[s], k), accepted, m))
    /\ UNCHANGED <<relayGroups, relayConn>>

RecvNotice(s) ==
    /\ CanReceive(s)
    /\ Deliver(s, InNotice)
    /\ UNCHANGED <<relayGroups, relayConn>>

RecvBad(s) ==
    /\ CanReceive(s)
    /\ Deliver(s, InBad)
    /\ UNCHANGED <<relayGroups, relayConn>>

Configs ==
    { Config("delete", <<"g","h","o","s","t","-","g","r","o","u","p">>, "", FALSE, TRUE,
             "wss://sphere-relay.unicity.network"),
      Config("create", <<"T","e","a","m"," ","C","h","a","t","!","!">>, "", FALSE, TRUE,
             DefaultRelayUrl),
      Config("create", <<"t","e","a","m","c","h","a","t">>, "Team only", TRUE, TRUE,
             "wss://sphere-relay.unicity.network"),
      Config("list", <<>>, "", FALSE, TRUE, "wss://sphere-relay.unicity.network"),
      Config("list", <<>>, "", FALSE, FALSE, DefaultRelayUrl) }

NoConfig == Config("create", <<>>, "", FALSE, TRUE, DefaultRelayUrl)

Init ==
    /\ \E cfg \in Configs : sess = [s \in Sessions |-> IF s = 1 THEN Idle(cfg) ELSE Idle(NoConfig)]
    /\ clock = 0
    /\ relayGroups = {}
    /\ relayConn = [s \in Sessions |-> NewConn(FALSE)]

Next ==
    \/ Start(1)
    \/ Open(1)
    \/ RecvAuth(1)
    \/ RecvEvent(1)
    \/ RecvEose(1)
    \/ RecvOk(1)
    \/ RecvNotice(1)
    \/ RecvBad(1)
    \/ TimerFire(1)
    \/ Deadline(1)
    \/ CloseEvent(1)
    \/ PeerClose(1)
    \/ ErrorEvent(1)

Spec == Init /\ [][Next]_vars

\* ws.close() called while the socket is CONNECTING: the library aborts the
\* handshake and emits 'error' on the next tick
AbortEvent(s) == sess[s].ws = "aborting" /\ ErrorEvent(s)

\* The same, with what the event loop and the ws library guarantee: an armed
\* deadline timer fires while the process runs; a closing handshake ends in
\* 'close' (the library destroys the socket 30 s after close() when the peer
\* does not answer); an aborted connection attempt ends in 'error'.
SpecLive ==
    /\ Init /\ [][Next]_vars
    /\ WF_vars(Deadline(1))
    /\ WF_vars(CloseEvent(1))
    /\ WF_vars(AbortEvent(1))


(***************************************************************************)
(* SpecRelay: two invocations of create-group against one relay that       *)
(* follows the protocol, over connections that deliver frames in order.    *)
(***************************************************************************)
RelayUrl == DefaultRelayUrl

ChallengeFor(s) == IF s = 1 THEN "nonce123" ELSE "n2"

\* the relay greets a new connection with its challenge
RelayChallenge(s) ==
    /\ sess[s].ws \in {"open", "closing"}
    /\ relayConn[s].challenge = ""
    /\ relayConn' = [relayConn EXCEPT ![s].challenge = ChallengeFor(s),
                                      ![s].out = Append(@, InAuth(ChallengeFor(s)))]
    /\ UNCHANGED <<sess, clock, relayGroups>>

\* What the relay does with one frame: <<groups, authed, frames to send>>
RelayHandle(groups, conn, frame) ==
    IF frame.t = "AUTH"
    THEN LET valid == RelayAuthValid(conn, frame.ev, RelayUrl)
         IN <<groups, conn.authed \/ valid,
              IF conn.acks
              THEN <<InOk(frame.ev.id, valid, IF valid THEN "" ELSE "restricted")>>
              ELSE <<>> >>
    ELSE IF frame.t = "REQ"
    THEN <<groups, conn.authed, RelayAnswerReq(groups, frame)>>
    ELSE IF frame.t = "EVENT" /\ frame.ev.kind = NIP29_CREATE_GROUP
    THEN IF ~conn.authed
         THEN <<groups, conn.authed, <<InOk(frame.ev.id, FALSE, "restricted")>> >>
         ELSE <<groups \cup {HTag(frame.ev)}, conn.authed, <<InOk(frame.ev.id, TRUE, "")>> >>
    ELSE IF frame.t = "EVENT" /\ frame.ev.kind = NIP29_CREATE_INVITE
    THEN IF conn.authed /\ HTag(frame.ev) \in groups
         THEN <<groups, conn.authed, <<InOk(frame.ev.id, TRUE, "")>> >>
         ELSE <<groups, conn.authed, <<InOk(frame.ev.id, FALSE, "group not found")>> >>
    ELSE <<groups, conn.authed, <<>> >>

\* the relay reads the next frame of a connection
RelayStep(s) ==
    /\ relayConn[s].pos < Len(sess[s].sent)
    /\ LET r == RelayHandle(relayGroups, relayConn[s], sess[s].sent[relayConn[s].pos + 1])
       IN /\ relayGroups' = r[1]
          /\ relayConn' = [relayConn EXCEPT ![s].pos = @ + 1, ![s].authed = r[2],
                                            ![s].out = @ \o r[3]]
    /\ UNCHANGED <<sess, clock>>

\* the next frame of the relay reaches the process
RelayDeliver(s) ==
    /\ relayConn[s].out # <<>>
    /\ Deliver(s, Head(relayConn[s].out))
    /\ relayConn' = [relayConn EXCEPT ![s].out = Tail(@)]
    /\ UNCHANGED relayGroups

RelayNames ==
    { <<"t","e","a","m","c","h","a","t">>, <<"g","e","n","e","r","a","l">> }

InitRelay ==
    /\ \E n2 \in RelayNames, p1 \in BOOLEAN, p2 \in BOOLEAN :
          sess = [s \in Sessions |->
                     Idle(Config("create",
                                 IF s = 1 THEN <<"T","e","a","m"," ","C","h","a","t","!","!">>
                                 ELSE n2, "",
                                 IF s = 1 THEN p1 ELSE p2, TRUE, RelayUrl))]
    /\ clock = 0
    /\ relayGroups = {}
    /\ \E acks \in BOOLEAN : relayConn = [s \in Sessions |-> NewConn(acks)]

NextRelay ==
    \E s \in Sessions :
        \/ Start(s)
        \/ Open(s)
        \/ RelayChallenge(s)
        \/ RelayStep(s)
        \/ RelayDeliver(s)
        \/ TimerFire(s)
        \/ Deadline(s)
        \/ CloseEvent(s)

SpecRelay == InitRelay /\ [][NextRelay]_vars


(***************************************************************************)
(* SpecNames: create-group invoked with any name of a bounded set; only    *)
(* the top level of the script runs, which derives the identifier.         *)
(***************************************************************************)
NameChars == {"A", "b", "7", "!"}

LongName ==
    <<"A","b","c","d","e","f","g","h","i","j","K","l","m","n","o","p","q","r",
      "s","t","u","v","w","x","-","y","z","0","1">>

NameInputs ==
    UNION {[1..k -> NameChars] : k \in 1..MaxNameLen}
       \cup {<<"T","e","a","m"," ","C","h","a","t","!","!">>, LongName}

InitNames ==
    /\ \E n \in NameInputs :
          sess = [s \in Sessions |->
                     IF s = 1 THEN Idle(Config("create", n, "", FALSE, TRUE, DefaultRelayUrl))
                     ELSE Idle(NoConfig)]
    /\ clock = 0
    /\ relayGroups = {}
    /\ relayConn = [s \in Sessions |-> NewConn(FALSE)]

NextNames == Start(1)

SpecNames == InitNames /\ [][NextNames]_vars


(***************************************************************************)
(* Vocabulary of the properties.                                           *)
(***************************************************************************)
FramesOf(st, t) == {i \in DOMAIN st.sent : st.sent[i].t = t}

\* frames i of kind EVENT that carry an event of the given kind
EventsOfKind(st, kind) ==
    {i \in DOMAIN st.sent : st.sent[i].t = "EVENT" /\ st.sent[i].ev.kind = kind}

Reported(st, out) == \E i \in DOMAIN st.reports : st.reports[i].out = out

\* the frames a step appended to the transmitted frames of s
NewFrames(s) == (Len(sess[s].sent) + 1)..Len(sess'[s].sent)

\* a step in which a frame was delivered to s
Delivered(s) == sess'[s].nIn = sess[s].nIn + 1

(***************************************************************************)
(* C1  In delete, create and list alike, every AUTH frame the client emits *)
(* is emitted on delivery of an AUTH challenge c and carries an event of   *)
(* kind 22242 whose tag list is exactly [["relay", U], ["challenge", c]],  *)
(* U being the URL that was dialed and c the challenge just received.      *)
(***************************************************************************)
C1_AuthEventBindsRelayAndChallenge ==
    [][\A s \in Sessions : \A i \in NewFrames(s) :
          sess'[s].sent[i].t = "AUTH" =>
             /\ Delivered(s)
             /\ sess'[s].lastIn.t = "AUTH"
             /\ sess'[s].sent[i].ev.kind = 22242
             /\ sess'[s].sent[i].ev.tags =
                   << <<"relay", sess'[s].dialed>>,
                      <<"challenge", sess'[s].lastIn.a1>> >>]_vars

C1_Witness ==
    \E s \in Sessions :
       /\ sess[s].dialed = "wss://sphere-relay.unicity.network"
       /\ sess[s].lastIn = InAuth("nonce123")
       /\ sess[s].sent # <<>>
       /\ sess[s].sent[Len(sess[s].sent)].t = "AUTH"

(***************************************************************************)
(* C2  Within one session the client emits at most one AUTH submission     *)
(* frame, whatever frames arrive (delete, create and list alike).          *)
(***************************************************************************)
C2_AtMostOneAuthSubmission ==
    \A s \in Sessions : Cardinality(FramesOf(sess[s], "AUTH")) <= 1

(***************************************************************************)
(* C3  A create-group or delete-group EVENT frame has been submitted only  *)
(* if an OK frame with accepted = true for a submitted authentication      *)
(* event was received before in that session.                              *)
(***************************************************************************)
C3_WriteOnlyAfterAuthAccepted ==
    \A s \in Sessions :
       (EventsOfKind(sess[s], 9007) \cup EventsOfKind(sess[s], 9008)) # {}
          => sess[s].authAccepted

(***************************************************************************)
(* C4  Once an OK frame with accepted = false for the submitted            *)
(* authentication event has been received, no REQ and no EVENT frame is    *)
(* submitted, and the only outcome reported from then on is the            *)
(* authentication failure.                                                 *)
(***************************************************************************)
C4_AuthRejectionEndsOperation ==
    \A s \in Sessions :
       sess[s].authRejectedAt >= 0 =>
          /\ \A i \in DOMAIN sess[s].sent :
                i > sess[s].authRejectedAt => sess[s].sent[i].t \notin {"REQ", "EVENT"}
          /\ \A j \in DOMAIN sess[s].reports :
                j > sess[s].authRejectedRep =>
                   sess[s].reports[j].out \in {"Authentication failed"}

(***************************************************************************)
(* C5  In a session in which create reports that the group already exists, *)
(* no create-group EVENT frame is submitted, before or after the report.   *)
(***************************************************************************)
C5_NoCreateWhenGroupExists ==
    \A s \in Sessions :
       (sess[s].op = "create" /\ Reported(sess[s], "Group already exists"))
          => EventsOfKind(sess[s], 9007) = {}

(***************************************************************************)
(* C6  When create has issued REQ on the label 'check' and the process has *)
(* concluded (after EOSE, by the deadline or on an error), a CLOSE frame   *)
(* for 'check' was sent after that REQ.                                    *)
(***************************************************************************)
C6_CheckLabelReleased ==
    \A s \in Sessions :
       (sess[s].op = "create" /\ sess[s].exit # -1
          /\ sess[s].endedBy \in {"close", "deadline", "error"})
       => \A i \in FramesOf(sess[s], "REQ") :
             \E j \in FramesOf(sess[s], "CLOSE") :
                j > i /\ sess[s].sent[j].sub = sess[s].sent[i].sub


\* a create invocation that reported success: it printed "Group created" on an
\* OK frame with accepted = true for its create-group event
ReportedSuccess(st) == st.op = "create" /\ Reported(st, "Group created")

\* b was invoked after a had ended, for the same identifier
RanAfter(a, b) ==
    /\ a # b
    /\ a \in sess[b].after
    /\ sess[a].op = "create" /\ sess[b].op = "create"
    /\ sess[a].groupId = sess[b].groupId

(***************************************************************************)
(* C7  Of two create invocations for the same normalized identifier, run   *)
(* one after the other against the same relay, at most one reports         *)
(* success (the creation of the group), and after a successful first one   *)
(* the second, once its check has completed, reports that the group        *)
(* already exists and submits no create-group event.                       *)
(***************************************************************************)
C7_CreateIdempotentSafe ==
    \A a \in Sessions, b \in Sessions :
       RanAfter(a, b) =>
          /\ ~(ReportedSuccess(sess[a]) /\ ReportedSuccess(sess[b]))
          /\ (ReportedSuccess(sess[a]) /\ sess[b].checkResult # "none")
                => /\ Reported(sess[b], "Group already exists")
                   /\ EventsOfKind(sess[b], 9007) = {}

C7_Witness ==
    \E a \in Sessions, b \in Sessions :
       /\ RanAfter(a, b)
       /\ sess[a].name # sess[b].name
       /\ ReportedSuccess(sess[a]) /\ sess[a].exit = 0
       /\ sess[b].reports = <<[out |-> "Group already exists", msg |-> ""]>>
       /\ sess[b].exit = 0

(***************************************************************************)
(* C8  The existence check of create answers "absent" for an identifier    *)
(* that no group was ever created for, answers "exists" when it runs       *)
(* right after a create of that identifier that reported success, and      *)
(* answers "exists" exactly when an EVENT frame on its label had arrived   *)
(* before the EOSE on its label that completed it.                         *)
(***************************************************************************)
C8_ExistenceCheckResult ==
    \A b \in Sessions :
       (sess[b].op = "create" /\ sess[b].checkResult # "none") =>
          /\ sess[b].groupId \notin relayGroups => sess[b].checkResult = "absent"
          /\ \A a \in Sessions :
                (RanAfter(a, b) /\ ReportedSuccess(sess[a]))
                   => sess[b].checkResult = "exists"
          /\ sess[b].checkResult = "exists" <=> sess[b].eventBeforeEose

C8_Witness ==
    \E a \in Sessions, b \in Sessions :
       /\ RanAfter(a, b)
       /\ ReportedSuccess(sess[a])
       /\ sess[a].checkResult = "absent" /\ ~sess[a].eventBeforeEose
       /\ sess[b].checkResult = "exists" /\ sess[b].eventBeforeEose

(***************************************************************************)
(* C9  In delete, an OK frame whose identifier is that of the delete event *)
(* and whose accepted flag is false makes the process report the failure   *)
(* with exactly the message of the frame and call close on the transport;  *)
(* an OK frame with any other identifier changes neither the reports nor   *)
(* the transport.                                                          *)
(***************************************************************************)
C9_DeleteRejectionSurfaced ==
    [][\A s \in Sessions :
          (sess[s].op = "delete" /\ Delivered(s) /\ sess'[s].lastIn.t = "OK") =>
             LET f == sess'[s].lastIn
             IN IF f.a1 = DeleteEvent(sess[s].groupId, sess[s].signedEvent.created_at).id
                THEN /\ ~f.a2 => sess'[s].reports =
                            Append(sess[s].reports,
                                   [out |-> "Failed to delete group", msg |-> f.a3])
                     /\ sess'[s].closeCalled
                     /\ sess'[s].ws # "open"
                ELSE /\ sess'[s].reports = sess[s].reports
                     /\ sess'[s].closeCalled = sess[s].closeCalled
                     /\ sess'[s].ws = sess[s].ws
                     /\ sess'[s].exit = sess[s].exit]_vars

C9_Witness ==
    \E s \in Sessions :
       /\ sess[s].op = "delete"
       /\ sess[s].groupId = <<"g","h","o","s","t","-","g","r","o","u","p">>
       /\ EventsOfKind(sess[s], 9008) # {}
       /\ sess[s].lastIn.t = "OK" /\ ~sess[s].lastIn.a2
       /\ sess[s].reports = <<[out |-> "Failed to delete group", msg |-> "group not found"]>>
       /\ sess[s].closeCalled

(***************************************************************************)
(* C10  Whenever a process has ended by the 'close' handler, the deadline  *)
(* timer or the 'error' handler, it had called close on its transport.     *)
(***************************************************************************)
C10_TransportClosedBeforeExit ==
    \A s \in Sessions :
       (sess[s].exit # -1 /\ sess[s].endedBy \in {"close", "deadline", "error"})
          => sess[s].closeCalled

(***************************************************************************)
(* C11  Every invocation of delete, create or list ends: a process that    *)
(* has been started eventually exits, whether the relay stays silent,      *)
(* never challenges, never sends OK or EOSE, or sends unrelated frames.    *)
(***************************************************************************)
C11_EveryInvocationTerminates ==
    \A s \in Sessions : (sess[s].ws # "none") ~> (sess[s].exit # -1)

\* list against a relay that accepted the connection and stayed silent
C11_Witness ==
    \E s \in Sessions :
       /\ sess[s].op = "list" /\ sess[s].hasKey
       /\ sess[s].nIn = 0 /\ sess[s].sent = <<>>
       /\ sess[s].timedOut
       /\ sess[s].exit = 0 /\ sess[s].endedBy = "close"

(***************************************************************************)
(* C12  A process whose deadline expired before its operation had reached  *)
(* a conclusion, and that ended by the deadline or the close that follows  *)
(* it, reported Timeout and ended with a failure status; list included.    *)
(***************************************************************************)
C12_DeadlineYieldsTimeout ==
    \A s \in Sessions :
       (sess[s].timedOut /\ sess[s].exit # -1
          /\ sess[s].endedBy \in {"deadline", "close"})
       => (sess[s].exit # 0 /\ Reported(sess[s], "Timeout"))

(***************************************************************************)
(* C13  The delivery of data that is not a JSON frame changes nothing of   *)
(* the process but the record of delivered frames: it keeps running with   *)
(* the same transport, frames sent, reports and pending timers.            *)
(***************************************************************************)
C13_MalformedFrameDropped ==
    [][\A s \in Sessions :
          (Delivered(s) /\ sess'[s].lastIn = InBad)
             => sess'[s] = Observe(sess[s], InBad, sess[s])]_vars

(***************************************************************************)
(* C14  The identifier create derives from a name consists of the first 24 *)
(* of the name's characters that are in [a-z0-9] once lowercased, in       *)
(* order and lowercased; when the name has no such character it is a       *)
(* fallback that begins with "group".  It is never empty, "Team Chat!!"    *)
(* gives "teamchat", and deriving an identifier from an identifier gives   *)
(* it back.                                                                *)
(***************************************************************************)
C14_IdentifierNormalization ==
    \A s \in Sessions :
       (sess[s].op = "create" /\ sess[s].ws # "none") =>
          LET n == sess[s].name
              id == sess[s].groupId
              kept == {i \in DOMAIN n : ToLowerChar(n[i]) \in Range(LowerChars) \cup Range(DigitChars)}
              nth(j) == CHOOSE i \in kept : Cardinality({k \in kept : k <= i}) = j
          IN /\ id # <<>>
             /\ kept # {} =>
                   /\ Len(id) = IF Cardinality(kept) < 24 THEN Cardinality(kept) ELSE 24
                   /\ \A j \in 1..Len(id) : id[j] = ToLowerChar(n[nth(j)])
             /\ kept = {} =>
                   /\ Len(id) >= 5
                   /\ SubSeq(id, 1, 5) = <<"g","r","o","u","p">>
             /\ n = <<"T","e","a","m"," ","C","h","a","t","!","!">>
                   => id = <<"t","e","a","m","c","h","a","t">>
             /\ generateGroupId(id, clock) = id

C14_Witness ==
    \E s \in Sessions :
       /\ sess[s].ws # "none"
       /\ sess[s].name = <<"T","e","a","m"," ","C","h","a","t","!","!">>
       /\ sess[s].groupId = <<"t","e","a","m","c","h","a","t">>

\* the last of a non-empty set of positions
LastOf(S) == CHOOSE i \in S : \A k \in S : k <= i

(***************************************************************************)
(* C15  When list receives a metadata event on its label (with a tags      *)
(* array), it records one group whose name, description and visibility     *)
(* each come from the last tag, in tag order, that specifies the field;    *)
(* from the JSON content when no tag specifies it and the content parses;  *)
(* and are the default otherwise.  Content that does not parse is ignored  *)
(* and the record is still made.                                           *)
(***************************************************************************)
C15_GroupRecordPrecedence ==
    [][\A s \in Sessions :
          (sess[s].op = "list" /\ Delivered(s)
             /\ sess'[s].lastIn.t = "EVENT" /\ sess'[s].lastIn.a1 = "groups"
             /\ sess'[s].lastIn.a2.hasTags)
          => LET ev == sess'[s].lastIn.a2
                 c == ev.content
                 tags == ev.tags
                 nameTags == {i \in DOMAIN tags : tags[i][1] = "name"}
                 aboutTags == {i \in DOMAIN tags : tags[i][1] = "about"}
                 visTags == {i \in DOMAIN tags : tags[i][1] \in {"public", "private"}}
                 r == sess'[s].groups[Len(sess'[s].groups)]
             IN /\ Len(sess'[s].groups) = Len(sess[s].groups) + 1
                /\ SubSeq(sess'[s].groups, 1, Len(sess[s].groups)) = sess[s].groups
                /\ r.name = IF nameTags # {} THEN tags[LastOf(nameTags)][2]
                            ELSE IF c.text = "json" /\ c.name # "" THEN c.name
                            ELSE "Unnamed"
                /\ r.description = IF aboutTags # {} THEN tags[LastOf(aboutTags)][2]
                                   ELSE IF c.text = "json" THEN c.about
                                   ELSE ""
                /\ r.private = IF visTags # {}
                               THEN LET t == tags[LastOf(visTags)]
                                    IN IF t[1] = "public" THEN t[2] = "false"
                                       ELSE t[2] = "true"
                               ELSE IF c.text = "json" THEN c.private
                               ELSE FALSE]_vars

\* content {"name":"X","about":"Y"} with tag ["name","Z"], and an event whose
\* content does not parse, both recorded
C15_Witness ==
    \E s \in Sessions :
       /\ sess[s].op = "list"
       /\ \E i \in DOMAIN sess[s].groups, j \in DOMAIN sess[s].groups :
             /\ sess[s].groups[i].name = "Z" /\ sess[s].groups[i].description = "Y"
             /\ sess[s].groups[j].name = "B" /\ sess[s].groups[j].private

(***************************************************************************)
(* C16  In a private create, the invite is reported as created only on     *)
(* delivery of an OK frame with accepted = true whose identifier is that   *)
(* of a create-invite event the process has submitted, carrying the code   *)
(* that is reported.                                                       *)
(***************************************************************************)
C16_InviteResolvedByItsOwnOk ==
    [][\A s \in Sessions :
          \A j \in (Len(sess[s].reports) + 1)..Len(sess'[s].reports) :
             sess'[s].reports[j].out = "Invite created" =>
                /\ Delivered(s)
                /\ sess'[s].lastIn.t = "OK" /\ sess'[s].lastIn.a2
                /\ \E i \in EventsOfKind(sess[s], 9009) :
                      /\ sess[s].sent[i].ev.id = sess'[s].lastIn.a1
                      /\ sess[s].sent[i].ev.tags =
                            << <<"h", sess[s].groupId>>,
                               <<"code", sess'[s].reports[j].msg>> >>]_vars

(***************************************************************************)
(* C17  An EVENT or EOSE frame whose label is not the one the command uses *)
(* in its REQ ('check' for create, 'groups' for list) changes nothing of   *)
(* the process but the record of delivered frames.                         *)
(***************************************************************************)
C17_RoutedBySubscriptionLabel ==
    [][\A s \in Sessions :
          (sess[s].op \in {"create", "list"} /\ Delivered(s)
             /\ sess'[s].lastIn.t \in {"EVENT", "EOSE"}
             /\ sess'[s].lastIn.a1 # (IF sess[s].op = "create" THEN "check" ELSE "groups"))
          => sess'[s] = Observe(sess[s], sess'[s].lastIn, sess[s])]_vars

(***************************************************************************)
(* C18  A list process that ran on an open connection until its deadline   *)
(* without ever receiving an AUTH challenge had issued its REQ for group   *)
(* metadata, with or without a signing key.                                *)
(***************************************************************************)
C18_ListReadsWithoutChallenge ==
    \A s \in Sessions :
       (sess[s].op = "list" /\ sess[s].exit # -1 /\ sess[s].endedBy = "close"
          /\ sess[s].timedOut /\ ~sess[s].sawAuth)
       => \E i \in FramesOf(sess[s], "REQ") : sess[s].sent[i].sub = "groups"

(***************************************************************************)
(* C19  A create or delete process that has received no AUTH challenge has *)
(* submitted no REQ and no EVENT frame.                                    *)
(***************************************************************************)
C19_NoWriteWithoutChallenge ==
    \A s \in Sessions :
       (sess[s].op \in {"create", "delete"} /\ ~sess[s].sawAuth)
          => FramesOf(sess[s], "REQ") \cup FramesOf(sess[s], "EVENT") = {}

(***************************************************************************)
(* C20  In any session the create-group event, the delete-group event and  *)
(* the create-invite event are each submitted at most once.                *)
(***************************************************************************)
C20_NoWriteRetried ==
    \A s \in Sessions : \A kind \in {9007, 9008, 9009} :
       Cardinality(EventsOfKind(sess[s], kind)) <= 1

(***************************************************************************)
(* C21  At no time has a session more than one REQ outstanding on its      *)
(* label ('check' for create, 'groups' for list): of the REQ frames sent   *)
(* since the last EOSE on the label, there is at most one.                 *)
(***************************************************************************)
C21_OneSubscriptionPerLabel ==
    \A s \in Sessions :
       Cardinality({i \in FramesOf(sess[s], "REQ") :
                       /\ i > sess[s].resolvedUpTo
                       /\ sess[s].sent[i].sub = OwnLabel(sess[s])}) <= 1

(***************************************************************************)
(* C22  A create-invite event is submitted only by a private create, only  *)
(* on delivery of an OK frame with accepted = true whose identifier is     *)
(* that of the create-group event, and never once the create-group has     *)
(* been reported as rejected; a public create submits none.                *)
(***************************************************************************)
C22_InviteOnlyAfterAcceptedCreate ==
    [][\A s \in Sessions : \A i \in NewFrames(s) :
          (sess'[s].sent[i].t = "EVENT" /\ sess'[s].sent[i].ev.kind = 9009) =>
             /\ sess[s].op = "create" /\ sess[s].isPrivate
             /\ Delivered(s)
             /\ sess'[s].lastIn.t = "OK" /\ sess'[s].lastIn.a2
             /\ sess'[s].lastIn.a1 = sess[s].signedEvent.id
             /\ sess[s].signedEvent.kind = 9007
             /\ ~Reported(sess'[s], "Failed to create group")]_vars

C22_Witness ==
    \E s \in Sessions :
       /\ sess[s].op = "create" /\ sess[s].isPrivate
       /\ EventsOfKind(sess[s], 9007) # {}
       /\ sess[s].lastIn.t = "OK" /\ sess[s].lastIn.a2
       /\ sess[s].lastIn.a1 = sess[s].signedEvent.id
       /\ sess[s].sent[Len(sess[s].sent)].ev.kind = 9009

(***************************************************************************)
(* C23  When a private create has reported the group as created and has    *)
(* submitted its invite, an OK frame with accepted = false for the invite  *)
(* makes it report "group created but invite failed" with the message of   *)
(* the frame, submit nothing (no delete-group, no other event) and call    *)
(* close on the transport.                                                 *)
(***************************************************************************)
C23_InviteRejectionIsPartialSuccess ==
    [][\A s \in Sessions :
          (/\ sess[s].op = "create" /\ Reported(sess[s], "Group created")
           /\ Delivered(s)
           /\ sess'[s].lastIn.t = "OK" /\ ~sess'[s].lastIn.a2
           /\ \E i \in EventsOfKind(sess[s], 9009) :
                  sess[s].sent[i].ev.id = sess'[s].lastIn.a1)
          => /\ sess'[s].reports =
                   Append(sess[s].reports, [out |-> "Group created but invite failed",
                                            msg |-> sess'[s].lastIn.a3])
             /\ sess'[s].sent = sess[s].sent
             /\ sess'[s].closeCalled /\ sess'[s].ws # "open"]_vars

C23_Witness ==
    \E s \in Sessions :
       /\ sess[s].op = "create"
       /\ EventsOfKind(sess[s], 9007) # {}
       /\ sess[s].lastIn.t = "OK"
       /\ \E i \in EventsOfKind(sess[s], 9009) : sess[s].sent[i].ev.id = sess[s].lastIn.a1
       /\ sess[s].reports = <<[out |-> "Group created", msg |-> ""],
                              [out |-> "Group created but invite failed",
                               msg |-> "group not found"]>>
       /\ sess[s].closeCalled

(***************************************************************************)
(* C24  A process that ended on a transport error or on the end of the     *)
(* connection before its operation had reached a conclusion (it had not    *)
(* called close) did not end with the success status.                      *)
(***************************************************************************)
C24_TransportFailureIsFailure ==
    \A s \in Sessions :
       (sess[s].exit # -1 /\ sess[s].endedBy \in {"error", "close"}
          /\ ~sess[s].closeCalled)
       => sess[s].exit # 0

(***************************************************************************)
(* C25  In delete and create, Timeout is reported, and the process ended   *)
(* by the deadline timer, only if the deadline expired before the          *)
(* operation had reported its conclusion and begun closing.                *)
(***************************************************************************)
C25_TimeoutOnlyBeforeResolution ==
    \A s \in Sessions :
       (sess[s].op \in {"delete", "create"}
          /\ (Reported(sess[s], "Timeout") \/ sess[s].endedBy = "deadline"))
       => sess[s].timedOut

(***************************************************************************)
(* C26  list appends one group record for each EVENT frame on its label    *)
(* that can be reconstructed, in arrival order, and changes its records on *)
(* no other occasion; it prints the listing of the records accumulated so  *)
(* far when an EOSE frame arrives, and only then, and calls close on the   *)
(* transport.                                                              *)
(***************************************************************************)
C26_ListAccumulatesUntilEose ==
    [][\A s \in Sessions :
          sess[s].op = "list" =>
             LET f == sess'[s].lastIn
                 isEvent == Delivered(s) /\ f.t = "EVENT" /\ f.a1 = "groups"
                 isEose == Delivered(s) /\ f.t = "EOSE"
                 old == sess[s].groups
                 new == sess'[s].groups
                 listing == {"Found groups", "No groups found on this relay"}
             IN /\ IF isEvent /\ f.a2.hasTags
                   THEN /\ Len(new) = Len(old) + 1
                        /\ SubSeq(new, 1, Len(old)) = old
                        /\ new[Len(new)].created = f.a2.created_at * 1000
                   ELSE new = old
                /\ IF isEose
                   THEN /\ sess'[s].reports =
                              Append(sess[s].reports,
                                     [out |-> IF old = <<>> THEN "No groups found on this relay"
                                              ELSE "Found groups",
                                      msg |-> ""])
                        /\ old # <<>> => sess'[s].printed = old
                        /\ sess'[s].closeCalled /\ sess'[s].ws # "open"
                   ELSE /\ sess'[s].printed = sess[s].printed
                        /\ \A j \in (Len(sess[s].reports) + 1)..Len(sess'[s].reports) :
                              sess'[s].reports[j].out \notin listing]_vars

\* two events and then EOSE: both records listed, in the order of arrival
C26_Witness ==
    \E s \in Sessions :
       /\ sess[s].op = "list"
       /\ sess[s].lastIn = InEose("groups")
       /\ Len(sess[s].printed) = 2
       /\ sess[s].printed[1].created = 2000 /\ sess[s].printed[2].created = 1000
       /\ Reported(sess[s], "Found groups")
       /\ sess[s].closeCalled

(***************************************************************************)
(* C27  A well-formed frame of a variant the command has no branch for     *)
(* (NOTICE for all three; EVENT and EOSE as well for delete) changes       *)
(* nothing of the process but the record of delivered frames: no frame is  *)
(* sent, no outcome reported, the transport and the process go on.         *)
(***************************************************************************)
C27_UnknownVariantIgnored ==
    [][\A s \in Sessions :
          (Delivered(s)
             /\ \/ sess'[s].lastIn.t = "NOTICE"
                \/ sess[s].op = "delete" /\ sess'[s].lastIn.t \in {"EVENT", "EOSE"})
          => sess'[s] = Observe(sess[s], sess'[s].lastIn, sess[s])]_vars

C27_Witness ==
    \E s \in Sessions :
       /\ sess[s].lastIn = InNotice
       /\ sess[s].nIn >= 2
       /\ FramesOf(sess[s], "AUTH") # {}
       /\ sess[s].ws = "open" /\ sess[s].exit = -1 /\ sess[s].timers > 0

\* the value of the tag named key in a tag list that has exactly one such tag
HasTag(tags, key, value) ==
    /\ Cardinality({k \in DOMAIN tags : tags[k][1] = key}) = 1
    /\ \A k \in DOMAIN tags : tags[k][1] = key => tags[k][2] = value

(***************************************************************************)
(* C28  In a create invocation (of the names "Team Chat!!" and "teamchat", *)
(* whose identifier is "teamchat") the identifier derived from the name is *)
(* '#d' value of every REQ filter (kinds [39000]), the 'h' tag of every    *)
(* create-group event (kind 9007) and the 'h' tag of every create-invite   *)
(* event (kind 9009) sent; the 'public' tag of the create-group event is   *)
(* "false" when --private was given and "true" otherwise.                  *)
(***************************************************************************)
C28_SameIdentifierAtEveryStep ==
    \A s \in Sessions :
       (sess[s].op = "create" /\ sess[s].ws # "none") =>
          LET id == <<"t","e","a","m","c","h","a","t">>
          IN /\ sess[s].name \in {<<"T","e","a","m"," ","C","h","a","t","!","!">>, id}
             /\ \A i \in FramesOf(sess[s], "REQ") :
                   /\ sess[s].sent[i].filter.kinds = <<39000>>
                   /\ sess[s].sent[i].filter.d = <<id>>
             /\ \A i \in EventsOfKind(sess[s], 9007) :
                   /\ HasTag(sess[s].sent[i].ev.tags, "h", id)
                   /\ HasTag(sess[s].sent[i].ev.tags, "public",
                             IF sess[s].isPrivate THEN "false" ELSE "true")
             /\ \A i \in EventsOfKind(sess[s], 9009) :
                   HasTag(sess[s].sent[i].ev.tags, "h", id)
             /\ \A i \in FramesOf(sess[s], "EVENT") :
                   sess[s].sent[i].ev.kind \in {9007, 9009}

C28_Witness ==
    \E s \in Sessions :
       /\ sess[s].op = "create" /\ sess[s].isPrivate
       /\ FramesOf(sess[s], "REQ") # {}
       /\ EventsOfKind(sess[s], 9007) # {}
       /\ EventsOfKind(sess[s], 9009) # {}

(***************************************************************************)
(* C29  Of two create invocations for the same normalized identifier that  *)
(* run against one relay, in any interleaving, at most one submits a       *)
(* create-group event and at most one reports success.                     *)
(***************************************************************************)
C29_ConcurrentCreateExclusive ==
    \A a \in Sessions, b \in Sessions :
       (/\ a # b
        /\ sess[a].op = "create" /\ sess[b].op = "create"
        /\ sess[a].ws # "none" /\ sess[b].ws # "none"
        /\ sess[a].groupId = sess[b].groupId)
       => /\ ~(EventsOfKind(sess[a], 9007) # {} /\ EventsOfKind(sess[b], 9007) # {})
          /\ ~(ReportedSuccess(sess[a]) /\ ReportedSuccess(sess[b]))

(***************************************************************************)
(* C30  A process that exited with status 0 reported no failure (relay     *)
(* rejection of create or delete, group already exists, authentication     *)
(* failure, timeout, transport error) and had not run into its deadline    *)
(* with its operation unresolved.                                          *)
(***************************************************************************)
C30_ExitZeroOnlyOnSuccess ==
    \A s \in Sessions :
       sess[s].exit = 0 =>
          /\ ~sess[s].timedOut
          /\ \A j \in DOMAIN sess[s].reports :
                sess[s].reports[j].out \notin
                   {"Failed to delete group", "Failed to create group",
                    "Group already exists", "Authentication failed",
                    "Timeout", "WebSocket error"}

====
